---- MODULE Spec2Model ----
(***************************************************************************)
(* Model of acer_thermal_lite.c: the platform-profile and fan-boost        *)
(* handlers and the WMI gaming call they share.  A u64 is modelled as its  *)
(* little-endian memory image, a sequence of 8 bytes, so that the masks    *)
(* GENMASK_ULL(7,0), (15,8) and (31,16) select bytes 1, 2 and 3..4.         *)
(***************************************************************************)
EXTENDS Integers, Sequences, FiniteSets, TLC

\* ---- bounds of the model ------------------------------------------------
MaxLen == 2        \* longest text written to the fan_boost attribute
MaxExtra == 1      \* bytes a firmware buffer may carry beyond the first 8

\* ---- program constants --------------------------------------------------
METHOD_SET == 22
METHOD_GET == 23
ACER_PLATFORM_PROFILE_INDEX == 11
ACER_FAN_BOOST_INDEX == 2
ACER_PROFILE_ECO == 6
ACER_PROFILE_TURBO == 5
ACER_PROFILE_PERFORMANCE == 4
ACER_PROFILE_BALANCED == 1
ACER_PROFILE_QUIET == 0

\* errno values returned negated by the handlers
EIO == 5
EINVAL == 22
ENOMSG == 42
EOPNOTSUPP == 95

\* GENMASK_ULL(h, l) as the pair of its bounds
ACER_MISC_SETTING_INDEX_MASK == [h |-> 7, l |-> 0]
ACER_MISC_SETTING_VALUE_MASK == [h |-> 15, l |-> 8]
\* the status mask, were it GENMASK_ULL(23, 16)
STATUS_MASK_narrow == [h |-> 23, l |-> 16]
ACER_MISC_SETTING_STATUS_MASK == [h |-> 31, l |-> 16]

\* enum platform_profile_option: the five options the driver handles and two
\* the switch of acer_lite_profile_set sends to its default branch
HandledProfiles == {"LOW_POWER", "QUIET", "BALANCED", "BALANCED_PERFORMANCE", "PERFORMANCE"}
OtherProfiles == {"COOL", "CUSTOM"}
ProfileOptions == HandledProfiles \cup OtherProfiles

\* ---- u64 words as 8 little-endian bytes ---------------------------------
Pow2(n) == 2 ^ n

\* u64 of a small number (below 2^16)
U64(n) == <<n % 256, (n \div 256) % 256, 0, 0, 0, 0, 0, 0>>

RECURSIVE BitOr(_, _)
BitOr(a, b) ==
    IF a = 0 THEN b
    ELSE IF b = 0 THEN a
    ELSE (IF (a % 2 = 1) \/ (b % 2 = 1) THEN 1 ELSE 0) + 2 * BitOr(a \div 2, b \div 2)

\* a | b on u64 words, byte by byte
WordOr(a, b) == [i \in 1..8 |-> BitOr(a[i], b[i])]

RECURSIVE FieldBytes(_, _, _)
FieldBytes(w, from, to) ==
    IF from > to THEN 0 ELSE w[from] + 256 * FieldBytes(w, from + 1, to)

\* FIELD_GET(mask, reg): (reg & mask) >> shift, for the byte-aligned masks
FIELD_GET(mask, reg) == FieldBytes(reg, (mask.l \div 8) + 1, (mask.h \div 8) + 1)

\* FIELD_PREP, were the value not shifted to the field
FIELD_PREP_unshifted(mask, val) == U64(val % 256)

\* FIELD_PREP(mask, val): (val << shift) & mask, val below 2^16
FIELD_PREP(mask, val) ==
    LET width == mask.h - mask.l + 1
        v     == val % Pow2(width)
    IN [i \in 1..8 |->
          IF i = (mask.l \div 8) + 1 THEN v % 256
          ELSE IF i = (mask.l \div 8) + 2 /\ width > 8 THEN (v \div 256) % 256
          ELSE 0]

\* ---- what the firmware may answer ---------------------------------------
\* a response word: index byte, value byte, 16-bit status, bit 32
Word(idx, v, s, hi) == <<idx, v, s % 256, s \div 256, hi, 0, 0, 0>>

ValueBytes == {0, 1, 2, 3, 4, 5, 6, 255}

Words ==
    { Word(0, v, 0, 0) : v \in ValueBytes }
    \cup { Word(0, v, 1, 0) : v \in {2, 5} }
    \cup { Word(0, 5, 256, 0) }
    \cup { Word(ACER_PLATFORM_PROFILE_INDEX, 4, 0, 1), Word(ACER_FAN_BOOST_INDEX, 1, 0, 1) }

\* what an uninitialised u64 local may hold
UninitWords == { Word(0, 0, 0, 0), Word(0, 5, 0, 0), Word(0, 3, 0, 0), Word(7, 1, 1, 1) }

ZeroWord == U64(0)

RECURSIVE Pad(_)
Pad(k) == IF k = 0 THEN <<>> ELSE <<170>> \o Pad(k - 1)

ACPI_TYPE_INTEGER == "Integer"
ACPI_TYPE_BUFFER == "Buffer"
ACPI_TYPE_STRING == "String"
NoObject == [type |-> "NULL", value |-> ZeroWord, bytes |-> <<>>]

\* result.pointer after a call that completed: an integer, a buffer of 8 or
\* more bytes, a shorter buffer, an object of another type, or nothing
Objects ==
    { [type |-> ACPI_TYPE_INTEGER, value |-> w, bytes |-> <<>>] : w \in Words }
    \cup { [type |-> ACPI_TYPE_BUFFER, value |-> ZeroWord, bytes |-> w] : w \in Words }
    \cup { [type |-> ACPI_TYPE_BUFFER, value |-> ZeroWord,
            bytes |-> Word(0, 6, 0, 0) \o Pad(k)] : k \in 1..MaxExtra }
    \cup { [type |-> ACPI_TYPE_BUFFER, value |-> ZeroWord,
            bytes |-> SubSeq(Word(0, 5, 0, 0), 1, k)] : k \in {0, 7} }
    \cup { [type |-> ACPI_TYPE_STRING, value |-> ZeroWord, bytes |-> <<>>] }
    \cup { NoObject }

AE_OK == "AE_OK"
AE_ERROR == "AE_ERROR"

\* ---- the WMI gaming call -------------------------------------------------
\* One evaluation of wmi_evaluate_method as the handlers see it: the status
\* and the returned object.  A call that fails returns no object.
Replies == { [status |-> AE_OK, obj |-> o] : o \in Objects }
           \cup { [status |-> AE_ERROR, obj |-> NoObject] }

ACPI_FAILURE(status) == status # AE_OK

\* wmi_gaming_execute, were a failed evaluation tried a second time
wmi_gaming_execute_retry(method_id, input_val, hasOut, out, reply) ==
    LET call == [method |-> method_id, instance |-> 0, input |-> input_val]
        obj  == reply.obj
    IN IF ACPI_FAILURE(reply.status)
       THEN [ret |-> -EIO, out |-> out, calls |-> <<call, call>>]
       ELSE IF obj # NoObject
       THEN IF obj.type = ACPI_TYPE_INTEGER /\ hasOut
            THEN [ret |-> 0, out |-> obj.value, calls |-> <<call>>]
            ELSE IF obj.type = ACPI_TYPE_BUFFER /\ Len(obj.bytes) >= 8 /\ hasOut
            THEN [ret |-> 0, out |-> SubSeq(obj.bytes, 1, 8), calls |-> <<call>>]
            ELSE [ret |-> 0, out |-> out, calls |-> <<call>>]
       ELSE IF hasOut
       THEN [ret |-> -ENOMSG, out |-> out, calls |-> <<call>>]
       ELSE [ret |-> 0, out |-> out, calls |-> <<call>>]

\* wmi_gaming_execute(method_id, input_val, output_val): hasOut tells whether
\* output_val is non-NULL and out is what *output_val held before the call.
\* Returns ret, the content of *output_val afterwards and the calls made.
wmi_gaming_execute(method_id, input_val, hasOut, out, reply) ==
    LET call == [method |-> method_id, instance |-> 0, input |-> input_val]
        obj  == reply.obj
    IN IF ACPI_FAILURE(reply.status)
       THEN [ret |-> -EIO, out |-> out, calls |-> <<call>>]
       ELSE IF obj # NoObject
       THEN IF obj.type = ACPI_TYPE_INTEGER /\ hasOut
            THEN [ret |-> 0, out |-> obj.value, calls |-> <<call>>]
            ELSE IF obj.type = ACPI_TYPE_BUFFER /\ Len(obj.bytes) >= 8 /\ hasOut
            THEN [ret |-> 0, out |-> SubSeq(obj.bytes, 1, 8), calls |-> <<call>>]
            ELSE [ret |-> 0, out |-> out, calls |-> <<call>>]
       ELSE IF hasOut
       THEN [ret |-> -ENOMSG, out |-> out, calls |-> <<call>>]
       ELSE [ret |-> 0, out |-> out, calls |-> <<call>>]

\* ---- platform profile ----------------------------------------------------
NoProfile == "unwritten"

\* the switch of acer_lite_profile_get, were its default branch a guess
VendorToProfile_guess(val) ==
    CASE val = ACER_PROFILE_TURBO       -> "PERFORMANCE"
      [] val = ACER_PROFILE_PERFORMANCE -> "BALANCED_PERFORMANCE"
      [] val = ACER_PROFILE_BALANCED    -> "BALANCED"
      [] val = ACER_PROFILE_QUIET       -> "QUIET"
      [] val = ACER_PROFILE_ECO         -> "LOW_POWER"
      [] OTHER                          -> "BALANCED"

\* the switch of acer_lite_profile_get: vendor code to profile option
VendorToProfile(val) ==
    CASE val = ACER_PROFILE_TURBO       -> "PERFORMANCE"
      [] val = ACER_PROFILE_PERFORMANCE -> "BALANCED_PERFORMANCE"
      [] val = ACER_PROFILE_BALANCED    -> "BALANCED"
      [] val = ACER_PROFILE_QUIET       -> "QUIET"
      [] val = ACER_PROFILE_ECO         -> "LOW_POWER"
      [] OTHER                          -> NoProfile

\* the switch of acer_lite_profile_set, were the codes matched by their names
ProfileToVendor_byName(profile) ==
    CASE profile = "PERFORMANCE"          -> ACER_PROFILE_PERFORMANCE
      [] profile = "BALANCED_PERFORMANCE" -> ACER_PROFILE_TURBO
      [] profile = "BALANCED"             -> ACER_PROFILE_BALANCED
      [] profile = "QUIET"                -> ACER_PROFILE_QUIET
      [] profile = "LOW_POWER"            -> ACER_PROFILE_ECO
      [] OTHER                            -> -1

\* the switch of acer_lite_profile_set: profile option to vendor code, -1 for
\* the default branch
ProfileToVendor(profile) ==
    CASE profile = "PERFORMANCE"          -> ACER_PROFILE_TURBO
      [] profile = "BALANCED_PERFORMANCE" -> ACER_PROFILE_PERFORMANCE
      [] profile = "BALANCED"             -> ACER_PROFILE_BALANCED
      [] profile = "QUIET"                -> ACER_PROFILE_QUIET
      [] profile = "LOW_POWER"            -> ACER_PROFILE_ECO
      [] OTHER                            -> -1

\* acer_lite_profile_get(dev, profile): uninit is what the local result holds
\* before the call; profile is *profile afterwards (NoProfile: not written)
acer_lite_profile_get(uninit, reply) ==
    LET input == U64(ACER_PLATFORM_PROFILE_INDEX)
        r     == wmi_gaming_execute(METHOD_GET, input, TRUE, uninit, reply)
        val   == FIELD_GET(ACER_MISC_SETTING_VALUE_MASK, r.out) % 256
    IN IF r.ret # 0
       THEN [ret |-> r.ret, profile |-> NoProfile, result |-> ZeroWord, calls |-> r.calls]
       ELSE IF FIELD_GET(ACER_MISC_SETTING_STATUS_MASK, r.out) # 0
       THEN [ret |-> -EIO, profile |-> NoProfile, result |-> r.out, calls |-> r.calls]
       ELSE IF VendorToProfile(val) = NoProfile
       THEN [ret |-> -EOPNOTSUPP, profile |-> NoProfile, result |-> r.out, calls |-> r.calls]
       ELSE [ret |-> 0, profile |-> VendorToProfile(val), result |-> r.out, calls |-> r.calls]

\* acer_lite_profile_set(dev, profile)
acer_lite_profile_set(profile, reply) ==
    LET val   == ProfileToVendor(profile)
        input == WordOr(U64(ACER_PLATFORM_PROFILE_INDEX),
                        FIELD_PREP(ACER_MISC_SETTING_VALUE_MASK, val))
        r     == wmi_gaming_execute(METHOD_SET, input, TRUE, ZeroWord, reply)
    IN IF val = -1
       THEN [ret |-> -EOPNOTSUPP, calls |-> <<>>]
       ELSE [ret |-> r.ret, calls |-> r.calls]

\* acer_lite_profile_probe, were one set_bit missing
acer_lite_profile_probe_four(choices) ==
    [ret |-> 0,
     choices |-> (((choices \cup {"LOW_POWER"}) \cup {"QUIET"}) \cup {"BALANCED"})
                    \cup {"PERFORMANCE"},
     calls |-> <<>>]

\* acer_lite_profile_probe(drvdata, choices): set_bit of five options on the
\* bitmap the caller hands in
acer_lite_profile_probe(choices) ==
    [ret |-> 0,
     choices |-> ((((choices \cup {"LOW_POWER"}) \cup {"QUIET"}) \cup {"BALANCED"})
                    \cup {"BALANCED_PERFORMANCE"}) \cup {"PERFORMANCE"},
     calls |-> <<>>]

\* ---- fan boost -----------------------------------------------------------
\* characters of the text written to the attribute
Chars == {"0", "1", "2", "-", "+", "a", "\n"}

RECURSIVE TextsOfLen(_)
TextsOfLen(n) ==
    IF n = 0 THEN {<<>>}
    ELSE { <<c>> \o t : c \in Chars, t \in TextsOfLen(n - 1) }

Texts == UNION { TextsOfLen(n) : n \in 0..MaxLen }

IsDigit(c) == c \in {"0", "1", "2"}
DigitVal(c) == CASE c = "0" -> 0 [] c = "1" -> 1 [] c = "2" -> 2 [] OTHER -> -1

\* _parse_integer: the number of leading decimal digits of s and their value
RECURSIVE ParseInteger(_, _, _)
ParseInteger(s, rv, res) ==
    IF s # <<>> /\ IsDigit(Head(s))
    THEN ParseInteger(Tail(s), rv + 1, res * 10 + DigitVal(Head(s)))
    ELSE [rv |-> rv, res |-> res, rest |-> s]

\* kstrtouint(s, 10, &val): an optional '+', at least one decimal digit, an
\* optional single newline, then the end of the text.  A text of at most
\* MaxLen digits is far below UINT_MAX, so -ERANGE cannot arise here.
kstrtouint(s) ==
    LET s1   == IF s # <<>> /\ Head(s) = "+" THEN Tail(s) ELSE s
        p    == ParseInteger(s1, 0, 0)
        rest == IF p.rest # <<>> /\ Head(p.rest) = "\n" THEN Tail(p.rest) ELSE p.rest
    IN IF p.rv = 0 THEN [err |-> -EINVAL, val |-> 0]
       ELSE IF rest # <<>> THEN [err |-> -EINVAL, val |-> 0]
       ELSE [err |-> 0, val |-> p.res]

DecDigit(d) == CASE d = 0 -> "0" [] d = 1 -> "1" [] d = 2 -> "2" [] d = 3 -> "3"
                 [] d = 4 -> "4" [] d = 5 -> "5" [] d = 6 -> "6" [] d = 7 -> "7"
                 [] d = 8 -> "8" [] d = 9 -> "9"

RECURSIVE Decimal(_)
Decimal(n) == IF n < 10 THEN <<DecDigit(n)>> ELSE Decimal(n \div 10) \o <<DecDigit(n % 10)>>

\* sysfs_emit(buf, "%d\n", (u8)x): the text written and its length
sysfs_emit(x) ==
    LET text == Decimal(x % 256) \o <<"\n">>
    IN [text |-> text, len |-> Len(text)]

\* fan_boost_show(dev, attr, buf): buf is the text emitted (empty: none)
fan_boost_show(uninit, reply) ==
    LET input == U64(ACER_FAN_BOOST_INDEX)
        r     == wmi_gaming_execute(METHOD_GET, input, TRUE, uninit, reply)
        e     == sysfs_emit(FIELD_GET(ACER_MISC_SETTING_VALUE_MASK, r.out))
    IN IF r.ret # 0
       THEN [ret |-> r.ret, buf |-> <<>>, result |-> ZeroWord, calls |-> r.calls]
       ELSE [ret |-> e.len, buf |-> e.text, result |-> r.out, calls |-> r.calls]

\* fan_boost_store, were the test val > 1 missing
fan_boost_store_unchecked(buf, reply) ==
    LET k     == kstrtouint(buf)
        input == WordOr(U64(ACER_FAN_BOOST_INDEX),
                        FIELD_PREP(ACER_MISC_SETTING_VALUE_MASK, k.val))
        r     == wmi_gaming_execute(METHOD_SET, input, TRUE, ZeroWord, reply)
    IN IF k.err # 0
       THEN [ret |-> -EINVAL, calls |-> <<>>]
       ELSE IF r.ret # 0
       THEN [ret |-> r.ret, calls |-> r.calls]
       ELSE [ret |-> Len(buf), calls |-> r.calls]

\* fan_boost_store(dev, attr, buf, count), count being the length of buf
fan_boost_store(buf, reply) ==
    LET k     == kstrtouint(buf)
        input == WordOr(U64(ACER_FAN_BOOST_INDEX),
                        FIELD_PREP(ACER_MISC_SETTING_VALUE_MASK, k.val))
        r     == wmi_gaming_execute(METHOD_SET, input, TRUE, ZeroWord, reply)
    IN IF k.err # 0 \/ k.val > 1
       THEN [ret |-> -EINVAL, calls |-> <<>>]
       ELSE IF r.ret # 0
       THEN [ret |-> r.ret, calls |-> r.calls]
       ELSE [ret |-> Len(buf), calls |-> r.calls]

\* ---- state ----------------------------------------------------------------
VARIABLES
    fw,       \* the setting bytes the firmware holds, by setting index
    op,       \* the handler invocation that just returned
    setBefore \* after acer_lite_profile_get: the profile of the directly preceding
              \* acer_lite_profile_set whose call the firmware completed, else
              \* NoProfile

vars == <<fw, op, setBefore>>

NoReply == [status |-> "none", obj |-> NoObject]

Idle == [name |-> "none", profile |-> NoProfile, buf |-> <<>>, choices |-> {},
         ret |-> 0, calls |-> <<>>, reply |-> NoReply, result |-> ZeroWord]

\* The firmware behind wmi_evaluate_method: a Set call that completes stores
\* the value byte of the request under its setting index; a Get call and a
\* call that fails store nothing.
FwAfter(f, calls, reply) ==
    IF calls # <<>> /\ reply.status = AE_OK /\ calls[Len(calls)].method = METHOD_SET
    THEN LET w   == calls[Len(calls)].input
             idx == FIELD_GET(ACER_MISC_SETTING_INDEX_MASK, w)
         IN IF idx \in DOMAIN f
            THEN [f EXCEPT ![idx] = FIELD_GET(ACER_MISC_SETTING_VALUE_MASK, w)]
            ELSE f
    ELSE f

Init ==
    /\ fw = [i \in {ACER_PLATFORM_PROFILE_INDEX, ACER_FAN_BOOST_INDEX} |->
               IF i = ACER_PLATFORM_PROFILE_INDEX THEN ACER_PROFILE_BALANCED ELSE 0]
    /\ op = Idle
    /\ setBefore = NoProfile


\* Every way one invocation of a handler can go: its inputs, the reply of the
\* firmware to the call it makes (none when it returns before calling) and
\* what the handler returns.
ProfileGetOutcomes ==
    { [reply |-> reply, r |-> acer_lite_profile_get(uninit, reply)] :
        reply \in Replies, uninit \in UninitWords }

ProfileSetOutcomes ==
    UNION { { [profile |-> profile, reply |-> reply, r |-> acer_lite_profile_set(profile, reply)] :
                reply \in (IF acer_lite_profile_set(profile, NoReply).calls = <<>>
                           THEN {NoReply} ELSE Replies) } :
            profile \in ProfileOptions }

FanBoostShowOutcomes ==
    { [reply |-> reply, r |-> fan_boost_show(uninit, reply)] :
        reply \in Replies, uninit \in UninitWords }

FanBoostStoreOutcomes ==
    UNION { { [buf |-> buf, reply |-> reply, r |-> fan_boost_store(buf, reply)] :
                reply \in (IF fan_boost_store(buf, NoReply).calls = <<>>
                           THEN {NoReply} ELSE Replies) } :
            buf \in Texts }

ProfileGet ==
    \E o \in ProfileGetOutcomes :
        /\ op' = [Idle EXCEPT !.name = "acer_lite_profile_get", !.profile = o.r.profile,
                              !.ret = o.r.ret, !.calls = o.r.calls,
                              !.reply = o.reply, !.result = o.r.result]
        /\ fw' = FwAfter(fw, o.r.calls, o.reply)
        /\ setBefore' = IF op.name = "acer_lite_profile_set" /\ op.calls # <<>>
                           /\ op.reply.status = AE_OK
                        THEN op.profile ELSE NoProfile

ProfileSet ==
    \E o \in ProfileSetOutcomes :
        /\ op' = [Idle EXCEPT !.name = "acer_lite_profile_set", !.profile = o.profile,
                              !.ret = o.r.ret, !.calls = o.r.calls, !.reply = o.reply]
        /\ fw' = FwAfter(fw, o.r.calls, o.reply)
        /\ setBefore' = NoProfile

ProfileProbe ==
    LET r == acer_lite_profile_probe({})
    IN /\ op' = [Idle EXCEPT !.name = "acer_lite_profile_probe", !.choices = r.choices,
                             !.ret = r.ret, !.calls = r.calls]
       /\ fw' = FwAfter(fw, r.calls, NoReply)
       /\ setBefore' = NoProfile

FanBoostShow ==
    \E o \in FanBoostShowOutcomes :
        /\ op' = [Idle EXCEPT !.name = "fan_boost_show", !.buf = o.r.buf,
                              !.ret = o.r.ret, !.calls = o.r.calls,
                              !.reply = o.reply, !.result = o.r.result]
        /\ fw' = FwAfter(fw, o.r.calls, o.reply)
        /\ setBefore' = NoProfile

FanBoostStore ==
    \E o \in FanBoostStoreOutcomes :
        /\ op' = [Idle EXCEPT !.name = "fan_boost_store", !.buf = o.buf,
                              !.ret = o.r.ret, !.calls = o.r.calls, !.reply = o.reply]
        /\ fw' = FwAfter(fw, o.r.calls, o.reply)
        /\ setBefore' = NoProfile

Next == ProfileGet \/ ProfileSet \/ ProfileProbe \/ FanBoostShow \/ FanBoostStore

Spec == Init /\ [][Next]_vars

\* ---- reading a reply and a request as the interface documents them -------
\* the reply carries a 64-bit word: an integer, or a buffer of 8 bytes or more
CarriesWord(reply) ==
    /\ reply.status = AE_OK
    /\ \/ reply.obj.type = ACPI_TYPE_INTEGER
       \/ reply.obj.type = ACPI_TYPE_BUFFER /\ Len(reply.obj.bytes) >= 8

ReplyWord(reply) ==
    IF reply.obj.type = ACPI_TYPE_INTEGER THEN reply.obj.value
    ELSE [i \in 1..8 |-> reply.obj.bytes[i]]

IndexByte(w) == w[1]                 \* bits [7:0]
ValueByte(w) == w[2]                 \* bits [15:8]
StatusField(w) == w[3] + 256 * w[4]  \* bits [31:16]
UpperZero(w) == \A i \in 3..8 : w[i] = 0   \* bits [63:16]

\* the mapping table of the profile translator
TableCode(profile) ==
    CASE profile = "PERFORMANCE"          -> 5
      [] profile = "BALANCED_PERFORMANCE" -> 4
      [] profile = "BALANCED"             -> 1
      [] profile = "QUIET"                -> 0
      [] profile = "LOW_POWER"            -> 6

ValidCodes == {0, 1, 4, 5, 6}

RECURSIVE Zeros(_)
Zeros(n) == IF n = 0 THEN <<>> ELSE <<"0">> \o Zeros(n - 1)

\* the texts that write the number d: an unsigned decimal numeral of value d
\* (d a single digit), with an optional plus sign and an optional newline
Writes ==
    [d \in {0, 1} |->
       { pre \o Zeros(n) \o <<DecDigit(d)>> \o post :
           pre \in {<<>>, <<"+">>}, n \in 0..MaxLen, post \in {<<>>, <<"\n">>} }]

WritesZeroOrOne == Writes[0] \cup Writes[1]

Getters == {"acer_lite_profile_get", "fan_boost_show"}
Setters == {"acer_lite_profile_set", "fan_boost_store"}

\* ---- C1 -------------------------------------------------------------------
\* C1: acer_lite_profile_set(p) directly followed by acer_lite_profile_get,
\* the firmware having stored the value byte of the Set request under index
\* 0x0B and answering the Get with an integer whose status is 0 and whose
\* value byte is the stored one, returns 0 with exactly p.
C1_RoundTrip ==
    (/\ op.name = "acer_lite_profile_get"
     /\ setBefore \in HandledProfiles
     /\ op.reply.status = AE_OK
     /\ op.reply.obj.type = ACPI_TYPE_INTEGER
     /\ StatusField(op.reply.obj.value) = 0
     /\ ValueByte(op.reply.obj.value) = fw[11])
    => (op.ret = 0 /\ op.profile = setBefore)

C1_Witness ==
    /\ op.name = "acer_lite_profile_get"
    /\ setBefore = "PERFORMANCE"
    /\ op.reply.status = AE_OK
    /\ op.reply.obj.type = ACPI_TYPE_INTEGER
    /\ StatusField(op.reply.obj.value) = 0
    /\ ValueByte(op.reply.obj.value) = fw[11]
    /\ op.ret = 0
    /\ op.profile = "PERFORMANCE"

\* ---- C2 -------------------------------------------------------------------
\* C2: a Get reply with status 0 whose value byte is none of 0, 1, 4, 5, 6
\* makes acer_lite_profile_get return -EOPNOTSUPP and leave *profile unwritten;
\* each of the five codes yields the profile of the table; whatever the reply,
\* a profile is written only on success and is one of the five.
C2_NoUnrecognizedCode ==
    op.name = "acer_lite_profile_get" =>
        /\ (op.profile # NoProfile => (op.ret = 0 /\ op.profile \in HandledProfiles))
        /\ (CarriesWord(op.reply) /\ StatusField(ReplyWord(op.reply)) = 0) =>
              LET v == ValueByte(ReplyWord(op.reply))
              IN IF v \in ValidCodes
                 THEN /\ op.ret = 0
                      /\ op.profile \in HandledProfiles
                      /\ TableCode(op.profile) = v
                 ELSE op.ret = -EOPNOTSUPP /\ op.profile = NoProfile

C2_Witness ==
    /\ op.name = "acer_lite_profile_get"
    /\ CarriesWord(op.reply)
    /\ StatusField(ReplyWord(op.reply)) = 0
    /\ ValueByte(ReplyWord(op.reply)) = 2
    /\ op.ret = -EOPNOTSUPP
    /\ op.profile = NoProfile

\* ---- C3 -------------------------------------------------------------------
\* C3: a Get reply whose status field is not 0 makes acer_lite_profile_get
\* return -EIO without a profile, whatever the value byte is.
C3_StatusRejection ==
    (/\ op.name = "acer_lite_profile_get"
     /\ CarriesWord(op.reply)
     /\ StatusField(ReplyWord(op.reply)) # 0)
    => (op.ret = -EIO /\ op.profile = NoProfile)

C3_Witness ==
    /\ op.name = "acer_lite_profile_get"
    /\ CarriesWord(op.reply)
    /\ StatusField(ReplyWord(op.reply)) = 256
    /\ ValueByte(ReplyWord(op.reply)) = 5
    /\ op.ret = -EIO

\* ---- C4 -------------------------------------------------------------------
\* C4: fan_boost_store of a text that does not write the number 0 or 1 (2, a
\* negative number, text that is no number, the empty text) returns -EINVAL,
\* makes no firmware call and leaves the firmware state as it was; a text that
\* writes 0 or 1 makes exactly one Set call with index 0x02 and that value.
C4_FanBoostValidation ==
    [][op'.name = "fan_boost_store" =>
         /\ (op'.ret = -EINVAL => (op'.calls = <<>> /\ fw' = fw))
         /\ (op'.buf \notin WritesZeroOrOne =>
                (op'.ret = -EINVAL /\ op'.calls = <<>> /\ fw' = fw))
         /\ \A d \in {0, 1} :
              op'.buf \in Writes[d] =>
                 /\ Len(op'.calls) = 1
                 /\ op'.calls[1].method = 22
                 /\ IndexByte(op'.calls[1].input) = 2
                 /\ ValueByte(op'.calls[1].input) = d
       ]_vars

C4_Witness ==
    /\ op.name = "fan_boost_store"
    /\ op.buf = <<"2">>
    /\ op.ret = -EINVAL
    /\ op.calls = <<>>
    /\ fw[2] = 1

\* ---- C5 -------------------------------------------------------------------
\* C5: on the Get path a call that completes with an object that is neither
\* an integer nor a buffer of 8 bytes or more, or with no object, fails with
\* -ENOMSG; nothing is reported that the reply did not carry.
C5_UnreadableReplyFails ==
    (/\ op.name \in Getters
     /\ op.reply.status = AE_OK
     /\ ~CarriesWord(op.reply))
    => (op.ret = -ENOMSG /\ op.profile = NoProfile /\ op.buf = <<>>)

\* ---- C6 -------------------------------------------------------------------
\* C6: a Get reply whose status field is not 0 makes fan_boost_show return
\* -EIO and emit no value.
C6_FanBoostStatusRejection ==
    (/\ op.name = "fan_boost_show"
     /\ CarriesWord(op.reply)
     /\ StatusField(ReplyWord(op.reply)) # 0)
    => (op.ret = -EIO /\ op.buf = <<>>)

\* ---- C7 -------------------------------------------------------------------
\* C7: every request word has bits [63:16] zero, the index of its operation in
\* bits [7:0] and the value to write in bits [15:8] (0 for a Get, the table's
\* code for acer_lite_profile_set, the number written for fan_boost_store); a
\* Get uses method 23 only and leaves the firmware state alone, a Set uses
\* method 22 only.
C7_RequestWord ==
    [][/\ \A i \in 1..Len(op'.calls) :
            LET c == op'.calls[i]
            IN /\ UpperZero(c.input)
               /\ op'.name = "acer_lite_profile_get" =>
                     (c.method = 23 /\ IndexByte(c.input) = 11 /\ ValueByte(c.input) = 0)
               /\ op'.name = "fan_boost_show" =>
                     (c.method = 23 /\ IndexByte(c.input) = 2 /\ ValueByte(c.input) = 0)
               /\ op'.name = "acer_lite_profile_set" =>
                     /\ c.method = 22
                     /\ IndexByte(c.input) = 11
                     /\ ValueByte(c.input) \in ValidCodes
                     /\ ValueByte(c.input) = TableCode(op'.profile)
               /\ op'.name = "fan_boost_store" =>
                     /\ c.method = 22
                     /\ IndexByte(c.input) = 2
                     /\ ValueByte(c.input) \in {0, 1}
                     /\ op'.buf \in Writes[ValueByte(c.input)]
       /\ op'.name \in Getters => fw' = fw
       /\ op'.name \in Getters \cup Setters \/ op'.calls = <<>>
      ]_vars

C7_Witness ==
    /\ op.name = "acer_lite_profile_set"
    /\ op.profile = "LOW_POWER"
    /\ Len(op.calls) = 1
    /\ op.calls[1].input = <<11, 6, 0, 0, 0, 0, 0, 0>>
    /\ op.calls[1].method = 22

\* ---- C8 -------------------------------------------------------------------
\* C8: acer_lite_profile_set, and fan_boost_store of a valid text, succeed
\* whenever the call completes, whatever object or lack of object comes back.
C8_SetLeniency ==
    (/\ op.name \in Setters
     /\ op.calls # <<>>
     /\ op.reply.status = AE_OK)
    => op.ret = (IF op.name = "fan_boost_store" THEN Len(op.buf) ELSE 0)

\* ---- C9 -------------------------------------------------------------------
\* C9: an invocation makes at most one firmware call, exactly one unless its
\* input is rejected; when that call fails the handler returns -EIO with no
\* value and no profile.
C9_NoRetry ==
    /\ Len(op.calls) <= 1
    /\ op.name \in Getters => Len(op.calls) = 1
    /\ op.name = "acer_lite_profile_set" =>
          (Len(op.calls) = 1 <=> op.profile \in HandledProfiles)
    /\ op.name = "fan_boost_store" =>
          (Len(op.calls) = 1 <=> op.buf \in WritesZeroOrOne)
    /\ (op.name \in Getters \cup Setters /\ op.reply.status = AE_ERROR) =>
          /\ op.ret = -EIO
          /\ op.name \in Getters => (op.profile = NoProfile /\ op.buf = <<>>)

C9_Witness ==
    /\ op.name = "fan_boost_show"
    /\ op.reply.status = AE_ERROR
    /\ Len(op.calls) = 1
    /\ op.ret = -EIO
    /\ op.buf = <<>>

\* ---- C10 ------------------------------------------------------------------
\* C10: acer_lite_profile_probe returns 0, makes no firmware call and reports
\* exactly the five profiles, whatever happened before and whatever the
\* firmware holds.
C10_ProbeConstant ==
    [][op'.name = "acer_lite_profile_probe" =>
         /\ op'.ret = 0
         /\ op'.calls = <<>>
         /\ fw' = fw
         /\ op'.choices = {"LOW_POWER", "QUIET", "BALANCED", "BALANCED_PERFORMANCE",
                           "PERFORMANCE"}
      ]_vars

C10_Witness ==
    /\ op.name = "acer_lite_profile_probe"
    /\ op.ret = 0
    /\ Cardinality(op.choices) = 5
    /\ fw[11] = 5
    /\ fw[2] = 1

====
